---- MODULE Spec2Model ----
(***************************************************************************)
(* Capynaut (src/src/index.ts): a registry of keyboard / click shortcuts   *)
(* attached to one DOM element.                                            *)
(*                                                                         *)
(* JavaScript strings are modelled as sequences of one-character strings,  *)
(* so that split, trim, toLowerCase, join and the default Array sort are   *)
(* computed as the code computes them.  console.warn calls change no       *)
(* program state and are not modelled.                                     *)
(*                                                                         *)
(* bindings, debug and listeners are the fields of one instance (its       *)
(* #bindings, its #debug and the event types its handler is attached for); *)
(* second holds the same three fields of another instance, constructed on  *)
(* another element.                                                        *)
(***************************************************************************)
EXTENDS Integers, Sequences, FiniteSets, TLC

VARIABLES bindings, debug, listeners, second, out

vars == <<bindings, debug, listeners, second, out>>

(***************************************************************************)
(* String primitives of the JavaScript runtime used by the code.           *)
(***************************************************************************)

\* The characters that occur in the model, in ascending UTF-16 code unit order.
Alphabet ==
    <<" ", "+", "C", "E", "S", "a", "c", "d", "e", "f", "h", "i", "k", "l", "m",
      "n", "o", "p", "r", "s", "t", "v", "|">>

charCode(c) == CHOOSE i \in DOMAIN Alphabet : Alphabet[i] = c

\* String.prototype.toLowerCase
lowerChar(c) == CASE c = "C" -> "c" [] c = "E" -> "e" [] c = "S" -> "s" [] OTHER -> c

toLowerCase(str) == [i \in DOMAIN str |-> lowerChar(str[i])]

\* String.prototype.trim
RECURSIVE trimStart(_)
trimStart(str) ==
    IF str # <<>> /\ Head(str) = " " THEN trimStart(Tail(str)) ELSE str

RECURSIVE trimEnd(_)
trimEnd(str) ==
    IF str # <<>> /\ str[Len(str)] = " "
    THEN trimEnd(SubSeq(str, 1, Len(str) - 1))
    ELSE str

trim(str) == trimEnd(trimStart(str))

\* String.prototype.includes, for a one-character needle
includes(str, ch) == \E i \in DOMAIN str : str[i] = ch

\* String.prototype.split, for a one-character separator: "" splits to [""]
RECURSIVE splitFrom(_, _, _)
splitFrom(str, sep, cur) ==
    IF str = <<>> THEN <<cur>>
    ELSE IF Head(str) = sep THEN <<cur>> \o splitFrom(Tail(str), sep, <<>>)
    ELSE splitFrom(Tail(str), sep, Append(cur, Head(str)))

split(str, sep) == splitFrom(str, sep, <<>>)

\* Array.prototype.join
RECURSIVE join(_, _)
join(arr, sep) ==
    IF arr = <<>> THEN <<>>
    ELSE IF Len(arr) = 1 THEN arr[1]
    ELSE arr[1] \o sep \o join(Tail(arr), sep)

\* The default comparison of Array.prototype.sort: code unit order of the strings.
RECURSIVE strLess(_, _)
strLess(a, b) ==
    IF b = <<>> THEN FALSE
    ELSE IF a = <<>> THEN TRUE
    ELSE IF Head(a) = Head(b) THEN strLess(Tail(a), Tail(b))
    ELSE charCode(Head(a)) < charCode(Head(b))

RECURSIVE insertSorted(_, _)
insertSorted(arr, x) ==
    IF arr = <<>> THEN <<x>>
    ELSE IF strLess(x, Head(arr)) THEN <<x>> \o arr
    ELSE <<Head(arr)>> \o insertSorted(Tail(arr), x)

\* Array.prototype.sort with no comparator (stable; equal strings are identical)
RECURSIVE sort(_)
sort(arr) ==
    IF arr = <<>> THEN <<>>
    ELSE insertSorted(sort(SubSeq(arr, 1, Len(arr) - 1)), arr[Len(arr)])

PLUS == <<"+">>

BAR == "|"

(***************************************************************************)
(* Capynaut                                                                *)
(***************************************************************************)

\* static #KEY_ALIAS
KEY_ALIAS ==
    (<<"e", "s", "c">> :> <<"e", "s", "c", "a", "p", "e">>)
    @@ (<<"d", "e", "l">> :> <<"d", "e", "l", "e", "t", "e">>)
    @@ (<<"s", "p", "a", "c", "e">> :> <<" ">>)
    @@ (<<"c", "o", "n", "t", "r", "o", "l">> :> <<"c", "t", "r", "l">>)
    @@ (<<"a", "l", "t">> :> <<"a", "l", "t">>)
    @@ (<<"s", "h", "i", "f", "t">> :> <<"s", "h", "i", "f", "t">>)
    @@ (<<"m", "e", "t", "a">> :> <<"m", "e", "t", "a">>)

\* a parser that knows no aliases
aliasNone(key) == key

\* Capynaut.#KEY_ALIAS[key] || key
aliasOr(key) == IF key \in DOMAIN KEY_ALIAS THEN KEY_ALIAS[key] ELSE key

\* keys.toLowerCase().split("+").map(key => key.trim())
keyParts(keys) ==
    LET parts == split(toLowerCase(keys), "+")
    IN  [i \in DOMAIN parts |-> trim(parts[i])]

\* the tokens pushed to keysBase by the forEach over keyParts
RECURSIVE keysBase(_)
keysBase(parts) ==
    IF parts = <<>> THEN <<>>
    ELSE IF includes(Head(parts), BAR) THEN keysBase(Tail(parts))
    ELSE <<aliasOr(Head(parts))>> \o keysBase(Tail(parts))

\* keysSplit emptied whenever a further alternation group is met
RECURSIVE keysSplitLast(_)
keysSplitLast(parts) ==
    IF parts = <<>> THEN <<>>
    ELSE IF \E i \in DOMAIN Tail(parts) : includes(Tail(parts)[i], BAR)
         THEN keysSplitLast(Tail(parts))
    ELSE IF includes(Head(parts), BAR)
         THEN LET alts == split(Head(parts), BAR)
              IN  [i \in DOMAIN alts |-> IF alts[i] \in DOMAIN KEY_ALIAS
                                         THEN KEY_ALIAS[alts[i]] ELSE alts[i]]
    ELSE <<>>

\* the tokens pushed to keysSplit by the forEach over keyParts
RECURSIVE keysSplit(_)
keysSplit(parts) ==
    IF parts = <<>> THEN <<>>
    ELSE IF includes(Head(parts), BAR)
         THEN LET alts == split(Head(parts), BAR)
              IN  [i \in DOMAIN alts |-> aliasOr(alts[i])] \o keysSplit(Tail(parts))
         ELSE keysSplit(Tail(parts))

\* keysSplit.forEach(key => { if (key.trim()) keysMerged.push([...keysBase, key]) })
RECURSIVE keysMerged(_, _)
keysMerged(base, alts) ==
    IF alts = <<>> THEN <<>>
    ELSE IF trim(Head(alts)) # <<>>
         THEN <<Append(base, Head(alts))>> \o keysMerged(base, Tail(alts))
         ELSE keysMerged(base, Tail(alts))

\* #parseKeys: the parsed key sequences, or a thrown TypeError
parseKeys(keys) ==
    LET parts  == keyParts(keys)
        base   == keysBase(parts)
        alts   == keysSplit(parts)
        merged == keysMerged(base, alts)
    IN  IF alts # <<>>
        THEN IF merged = <<>>
             THEN [threw |-> TRUE, value |-> <<>>]
             ELSE [threw |-> FALSE, value |-> merged]
        ELSE [threw |-> FALSE, value |-> <<base>>]

(***************************************************************************)
(* Inputs                                                                  *)
(***************************************************************************)

MaxBindings == 2

Callbacks == {"cb1", "cb2"}

\* the (callback, description, enabled) arguments of bind and rebind calls
CallArgs ==
    {[callback |-> "cb1", description |-> "", enabled |-> e] : e \in BOOLEAN}
    \cup {[callback |-> "cb2", description |-> "save", enabled |-> e] : e \in BOOLEAN}

\* shortcut strings passed as the keys argument
KeyS == <<"s">>
KeyCtrlS == <<"c", "t", "r", "l", "+", "s">>
KeySCtrl == <<"s", "+", "c", "t", "r", "l">>
KeyBlank == <<" ">>
KeyBar == <<"|">>
KeyCtrlC == <<"c", "t", "r", "l", "+", "c">>
KeyCtrlV == <<"c", "t", "r", "l", "+", "v">>
KeyCtrlCV == <<"c", "t", "r", "l", "+", "c", "|", "v">>
KeyCtrlCC == <<"c", "t", "r", "l", "+", "c", "|", "c">>
KeyCtrlSpace == <<"c", "t", "r", "l", "+", "s", "p", "a", "c", "e">>
KeyCtrlSpaceV == <<"c", "t", "r", "l", "+", "s", "p", "a", "c", "e", "|", "v">>
KeyPlus == <<"+">>
KeyCtrl == <<"c", "t", "r", "l">>

\* order variants of one combination, and a string that makes the call throw
Keys == {KeyS, KeyCtrlS, KeySCtrl, KeyBar}

\* alternation groups and the single combinations they stand for
GroupKeys == {KeyCtrlCV, KeyCtrlC, KeyCtrlV, KeyCtrlCC}

\* an alternation group with an alias among its alternatives
AliasKeys == {KeyCtrlSpaceV, KeyCtrlSpace, KeyCtrlV}

\* a shortcut string for the "+" key, and a string that makes the call throw
PlusKeys == {KeyPlus, KeyS, KeyCtrlS, KeyBlank}

\* a key and a bare modifier
DebugKeys == {KeyS, KeyCtrl}

\* spellings of one shortcut: letter case, blanks around the parts, aliases
KeyCtrlSUpper == <<"C", "t", "r", "l", "+", "S">>
KeyCtrlSBlanks == <<" ", "c", "t", "r", "l", " ", "+", " ", "s", " ">>
KeyControlS == <<"c", "o", "n", "t", "r", "o", "l", "+", "s">>
KeyEsc == <<"e", "s", "c">>
KeyEscape == <<"e", "s", "c", "a", "p", "e">>
KeyDel == <<"d", "e", "l">>
KeyDelete == <<"d", "e", "l", "e", "t", "e">>

\* the spellings that the claim takes for the same shortcut
SpellingClasses ==
    {{KeyCtrlS, KeyCtrlSUpper, KeyCtrlSBlanks, KeyControlS}, {KeyEsc, KeyEscape},
     {KeyDel, KeyDelete}}

SpellingKeys == UNION SpellingClasses

AllKeys ==
    Keys \cup GroupKeys \cup AliasKeys \cup PlusKeys \cup DebugKeys \cup SpellingKeys

keyEvent(key, ctrl) ==
    [cls |-> "KeyboardEvent", type |-> "keydown", key |-> key, ctrlKey |-> ctrl,
     altKey |-> FALSE, shiftKey |-> FALSE, metaKey |-> FALSE]

clickEvent(ctrl) ==
    [cls |-> "MouseEvent", type |-> "click", key |-> <<>>, ctrlKey |-> ctrl,
     altKey |-> FALSE, shiftKey |-> FALSE, metaKey |-> FALSE]

plainEvent(type) ==
    [cls |-> "Event", type |-> type, key |-> <<>>, ctrlKey |-> FALSE,
     altKey |-> FALSE, shiftKey |-> FALSE, metaKey |-> FALSE]

Events ==
    {keyEvent(<<"s">>, FALSE), keyEvent(<<"s">>, TRUE), keyEvent(<<"S">>, FALSE),
     clickEvent(FALSE), plainEvent("keydown")}

GroupEvents ==
    {keyEvent(<<"c">>, TRUE), keyEvent(<<"v">>, TRUE), keyEvent(<<" ">>, TRUE),
     keyEvent(<<"c">>, FALSE), clickEvent(TRUE)}

DebugEvents ==
    {keyEvent(<<"s">>, FALSE), keyEvent(<<"s">>, TRUE),
     keyEvent(<<"C", "o", "n", "t", "r", "o", "l">>, TRUE), clickEvent(FALSE),
     plainEvent("keydown")}

PlusEvents ==
    {keyEvent(<<"+">>, FALSE), keyEvent(<<"s">>, FALSE), keyEvent(<<"s">>, TRUE),
     keyEvent(<<"+">>, TRUE)}

\* parseKeys over the shortcut strings of the model, evaluated once
parseTable == [keys \in AllKeys |-> parseKeys(keys)]

parsedKeys(keys) == parseTable[keys]

(***************************************************************************)
(* Registry operations.  Each takes the #bindings array b and returns the  *)
(* new array, the console.warn messages of the call (the key join each one *)
(* names) and whether the call threw.                                      *)
(***************************************************************************)

\* binding.keys.join("+")
keysJoin(keys) == join(keys, PLUS)

\* this.#bindings.some(binding => binding.keys.join("+") === keysJoin)
registered(b, kj) == \E i \in DOMAIN b : keysJoin(b[i].keys) = kj

\* this.#bindings.filter(binding => binding.keys.join("+") !== keysJoin)
RECURSIVE filterOut(_, _)
filterOut(b, kj) ==
    IF b = <<>> THEN <<>>
    ELSE IF keysJoin(Head(b).keys) # kj THEN <<Head(b)>> \o filterOut(Tail(b), kj)
    ELSE filterOut(Tail(b), kj)

keyBinding(keys, callback, description, enabled) ==
    [keys |-> keys, callback |-> callback, description |-> description,
     enabled |-> enabled]

\* typeof keys !== "string" || !keys.trim()  (keys is a string in this model)
badKeys(keys) == trim(keys) = <<>>

threw(b) == [threw |-> TRUE, bindings |-> b, warned |-> <<>>]

returned(acc) == [threw |-> FALSE, bindings |-> acc.bindings, warned |-> acc.warned]

start(b) == [bindings |-> b, warned |-> <<>>]

\* bindOne without the duplicate check
bindOneUnchecked(b, keys, callback, description, enabled) ==
    Append(b, keyBinding(keys, callback, description, enabled))

\* bindOne taking the sorted keys as the identity of a binding
bindOneCanonical(b, keys, callback, description, enabled) ==
    IF \E i \in DOMAIN b : join(sort(b[i].keys), PLUS) = join(sort(keys), PLUS)
    THEN b
    ELSE Append(b, keyBinding(keys, callback, description, enabled))

\* bindOne replacing a registered binding instead of keeping it
bindOneOverwrite(b, keys, callback, description, enabled) ==
    Append(filterOut(b, keysJoin(keys)),
           keyBinding(keys, callback, description, enabled))

\* the body of bind's parsedKeys.forEach, for one key sequence
bindOne(b, keys, callback, description, enabled) ==
    IF ~registered(b, keysJoin(keys))
    THEN Append(b, keyBinding(keys, callback, description, enabled))
    ELSE b

\* bindEach giving up at the first key sequence that is already registered
RECURSIVE bindEachAbort(_, _, _, _, _)
bindEachAbort(acc, parsed, callback, description, enabled) ==
    IF parsed = <<>> THEN acc
    ELSE IF registered(acc.bindings, keysJoin(Head(parsed)))
         THEN [acc EXCEPT !.warned = Append(@, keysJoin(Head(parsed)))]
    ELSE bindEachAbort(
             [acc EXCEPT !.bindings = bindOne(@, Head(parsed), callback, description,
                                              enabled)],
             Tail(parsed), callback, description, enabled)

RECURSIVE bindEach(_, _, _, _, _)
bindEach(acc, parsed, callback, description, enabled) ==
    IF parsed = <<>> THEN acc
    ELSE LET keys == Head(parsed)
             b    == acc.bindings
         IN  bindEach(
                 [bindings |-> bindOne(b, keys, callback, description, enabled),
                  warned |-> IF registered(b, keysJoin(keys))
                             THEN Append(acc.warned, keysJoin(keys))
                             ELSE acc.warned],
                 Tail(parsed), callback, description, enabled)

\* bind(keys, callback, description, enabled)
bind(b, keys, callback, description, enabled) ==
    IF badKeys(keys) \/ parsedKeys(keys).threw
    THEN threw(b)
    ELSE returned(bindEach(start(b), parsedKeys(keys).value, callback, description,
                           enabled))

\* the body of unbind's parsedKeys.forEach, for one key sequence
unbindOne(b, keys) == filterOut(b, keysJoin(keys))

RECURSIVE unbindEach(_, _)
unbindEach(acc, parsed) ==
    IF parsed = <<>> THEN acc
    ELSE LET keys == Head(parsed)
             b    == acc.bindings
             kept == unbindOne(b, keys)
         IN  unbindEach(
                 [bindings |-> kept,
                  warned |-> IF Len(kept) = Len(b)
                             THEN Append(acc.warned, keysJoin(keys))
                             ELSE acc.warned],
                 Tail(parsed))

\* unbind(keys)
unbind(b, keys) ==
    IF badKeys(keys) \/ parsedKeys(keys).threw
    THEN threw(b)
    ELSE returned(unbindEach(start(b), parsedKeys(keys).value))

\* rebindOne adding the binding also when none was registered
rebindOneUpsert(b, keys, callback, description, enabled) ==
    Append(filterOut(b, keysJoin(keys)),
           keyBinding(keys, callback, description, enabled))

\* rebindOne writing the replacement at the position of the binding it replaces
rebindOneInPlace(b, keys, callback, description, enabled) ==
    [i \in DOMAIN b |->
        IF keysJoin(b[i].keys) = keysJoin(keys)
        THEN keyBinding(keys, callback, description, enabled)
        ELSE b[i]]

\* the body of rebind's parsedKeys.forEach, for one key sequence
rebindOne(b, keys, callback, description, enabled) ==
    LET kept == filterOut(b, keysJoin(keys))
    IN  IF Len(kept) < Len(b)
        THEN Append(kept, keyBinding(keys, callback, description, enabled))
        ELSE kept

RECURSIVE rebindEach(_, _, _, _, _)
rebindEach(acc, parsed, callback, description, enabled) ==
    IF parsed = <<>> THEN acc
    ELSE LET keys == Head(parsed)
             b    == acc.bindings
         IN  rebindEach(
                 [bindings |-> rebindOne(b, keys, callback, description, enabled),
                  warned |-> IF Len(filterOut(b, keysJoin(keys))) < Len(b)
                             THEN acc.warned
                             ELSE Append(acc.warned, keysJoin(keys))],
                 Tail(parsed), callback, description, enabled)

\* rebind(keys, callback, description, enabled)
rebind(b, keys, callback, description, enabled) ==
    IF badKeys(keys) \/ parsedKeys(keys).threw
    THEN threw(b)
    ELSE returned(rebindEach(start(b), parsedKeys(keys).value, callback,
                             description, enabled))

\* the body of #toggle's parsedKeys.forEach, for one key sequence
toggleOne(b, keys, enabled) ==
    [i \in DOMAIN b |->
        IF keysJoin(b[i].keys) = keysJoin(keys)
        THEN [b[i] EXCEPT !.enabled = enabled]
        ELSE b[i]]

\* toggleEach giving up at the first key sequence that is not registered
RECURSIVE toggleEachAbort(_, _, _)
toggleEachAbort(acc, parsed, enabled) ==
    IF parsed = <<>> THEN acc
    ELSE IF ~registered(acc.bindings, keysJoin(Head(parsed)))
         THEN [acc EXCEPT !.warned = Append(@, keysJoin(Head(parsed)))]
    ELSE toggleEachAbort([acc EXCEPT !.bindings = toggleOne(@, Head(parsed), enabled)],
                         Tail(parsed), enabled)

RECURSIVE toggleEach(_, _, _)
toggleEach(acc, parsed, enabled) ==
    IF parsed = <<>> THEN acc
    ELSE LET keys == Head(parsed)
             b    == acc.bindings
         IN  toggleEach(
                 [bindings |-> toggleOne(b, keys, enabled),
                  warned |-> IF registered(b, keysJoin(keys))
                             THEN acc.warned
                             ELSE Append(acc.warned, keysJoin(keys))],
                 Tail(parsed), enabled)

\* #toggle(keys, enabled)
toggle(b, keys, enabled) ==
    IF parsedKeys(keys).threw
    THEN threw(b)
    ELSE returned(toggleEach(start(b), parsedKeys(keys).value, enabled))

\* enable(keys)
enable(b, keys) == IF badKeys(keys) THEN threw(b) ELSE toggle(b, keys, TRUE)

\* disable(keys)
disable(b, keys) == IF badKeys(keys) THEN threw(b) ELSE toggle(b, keys, FALSE)

\* destroy clearing the bindings and leaving the click listener attached
destroyKeepsClick(b, attached) ==
    [bindings |-> <<>>, listeners |-> attached \ {"keydown"}]

\* destroy(): both listeners removed from the element, the bindings cleared
destroy(b, attached) ==
    [bindings |-> <<>>, listeners |-> attached \ {"keydown", "click"}]

\* docs listing only the enabled bindings
docsEnabledOnly(b, readable) ==
    LET listed == SelectSeq(b, LAMBDA binding : binding.enabled)
    IN  [i \in DOMAIN listed |->
            [keys |-> IF readable THEN join(listed[i].keys, <<" ", "+", " ">>)
                      ELSE listed[i].keys,
             description |-> listed[i].description]]

\* docs(readable), for a boolean readable: the array it returns
docs(b, readable) ==
    [i \in DOMAIN b |->
        [keys |-> IF readable THEN join(b[i].keys, <<" ", "+", " ">>) ELSE b[i].keys,
         description |-> b[i].description]]

(***************************************************************************)
(* The public methods called from untyped JavaScript: an argument is a     *)
(* value of any type, or undefined when it is left out.  A value is        *)
(* modelled by its typeof and its content, a string by its characters.     *)
(***************************************************************************)

jsString(s) == [type |-> "string", string |-> s]

jsBoolean(flag) == [type |-> "boolean", boolean |-> flag]

jsFunction(f) == [type |-> "function", function |-> f]

jsNumber(n) == [type |-> "number", number |-> n]

jsUndefined == [type |-> "undefined"]

\* typeof v
typeOf(v) == v.type

\* a parameter with a default value: the default replaces undefined only
orDefault(v, default) == IF typeOf(v) = "undefined" THEN default ELSE v

\* typeof keys !== "string" || !keys.trim()
invalidKeys(keys) == typeOf(keys) # "string" \/ trim(keys.string) = <<>>

\* bind(keys, callback, description = "", enabled = true)
bindArgs(b, keys, callback, description, enabled) ==
    LET d == orDefault(description, jsString(<<>>))
        e == orDefault(enabled, jsBoolean(TRUE))
    IN  IF invalidKeys(keys) THEN threw(b)
        ELSE IF typeOf(callback) # "function" THEN threw(b)
        ELSE IF typeOf(d) # "string" THEN threw(b)
        ELSE IF typeOf(e) # "boolean" THEN threw(b)
        ELSE bind(b, keys.string, callback.function, d.string, e.boolean)

\* unbind(keys)
unbindArgs(b, keys) ==
    IF invalidKeys(keys) THEN threw(b) ELSE unbind(b, keys.string)

\* rebind(keys, callback, description = "", enabled = true)
rebindArgs(b, keys, callback, description, enabled) ==
    LET d == orDefault(description, jsString(<<>>))
        e == orDefault(enabled, jsBoolean(TRUE))
    IN  IF invalidKeys(keys) THEN threw(b)
        ELSE IF typeOf(callback) # "function" THEN threw(b)
        ELSE IF typeOf(d) # "string" THEN threw(b)
        ELSE IF typeOf(e) # "boolean" THEN threw(b)
        ELSE rebind(b, keys.string, callback.function, d.string, e.boolean)

\* enable(keys)
enableArgs(b, keys) ==
    IF invalidKeys(keys) THEN threw(b) ELSE enable(b, keys.string)

\* disable(keys)
disableArgs(b, keys) ==
    IF invalidKeys(keys) THEN threw(b) ELSE disable(b, keys.string)

\* debug(enabled = true): the value #debug holds afterwards
debugArgs(enabled) == orDefault(enabled, jsBoolean(TRUE))

\* docs(readable = false): whether it throws, and the array it returns
docsArgs(b, readable) ==
    LET r == orDefault(readable, jsBoolean(FALSE))
    IN  IF typeOf(r) # "boolean"
        THEN [threw |-> TRUE, returned |-> <<>>]
        ELSE [threw |-> FALSE, returned |-> docs(b, r.boolean)]

(***************************************************************************)
(* Event handling                                                          *)
(***************************************************************************)

\* pressedOf without the modifier flags
pressedOfNoModifiers(event) ==
    IF event.cls = "MouseEvent"
    THEN <<<<"c", "l", "i", "c", "k">>>>
    ELSE <<toLowerCase(event.key)>>

\* the tokens pushed to pressed for a KeyboardEvent or a MouseEvent
pressedOf(event) ==
    (IF event.ctrlKey THEN <<<<"c", "t", "r", "l">>>> ELSE <<>>)
    \o (IF event.altKey THEN <<<<"a", "l", "t">>>> ELSE <<>>)
    \o (IF event.shiftKey THEN <<<<"s", "h", "i", "f", "t">>>> ELSE <<>>)
    \o (IF event.metaKey THEN <<<<"m", "e", "t", "a">>>> ELSE <<>>)
    \o (IF event.cls = "MouseEvent"
        THEN <<<<"c", "l", "i", "c", "k">>>>
        ELSE LET keyPressed == toLowerCase(event.key)
             IN  IF keyPressed \notin DOMAIN KEY_ALIAS THEN <<keyPressed>> ELSE <<>>)

\* sortedBinding === sortedPressed && binding.enabled
matches(binding, pressed) ==
    /\ join(sort(binding.keys), PLUS) = join(sort(pressed), PLUS)
    /\ binding.enabled

\* invokedFrom stopping at the first binding with the pressed keys, enabled or not
RECURSIVE invokedFromBlocked(_, _, _)
invokedFromBlocked(b, pressed, i) ==
    IF i > Len(b) THEN <<>>
    ELSE IF join(sort(b[i].keys), PLUS) = join(sort(pressed), PLUS)
         THEN IF b[i].enabled THEN <<b[i]>> ELSE <<>>
    ELSE invokedFromBlocked(b, pressed, i + 1)

\* the for...of loop over this.#bindings from index i, with its break: the
\* bindings whose callback it invokes
RECURSIVE invokedFrom(_, _, _)
invokedFrom(b, pressed, i) ==
    IF i > Len(b) THEN <<>>
    ELSE IF matches(b[i], pressed) THEN <<b[i]>>
    ELSE invokedFrom(b, pressed, i + 1)

noEffect == [invoked |-> <<>>, prevented |-> FALSE, logged |-> <<>>, threw |-> FALSE]

\* what a callback does when it is called: "cbThrow" throws, the others return
throws(callback) == callback = "cbThrow"

\* #handleKeydown calling preventDefault for a matching binding before it
\* looks at enabled
handleKeydownPreventing(b, dbg, event) ==
    IF event.cls \in {"KeyboardEvent", "MouseEvent"}
    THEN [invoked |-> invokedFrom(b, pressedOf(event), 1),
          prevented |-> \E i \in DOMAIN b :
                            join(sort(b[i].keys), PLUS) = join(sort(pressedOf(event)), PLUS),
          logged |-> IF dbg THEN <<join(pressedOf(event), <<" ", "+", " ">>)>> ELSE <<>>,
          threw |-> FALSE]
    ELSE noEffect

\* #handleKeydown without its instanceof test: an event of any class goes
\* through the loop and the debug log
handleKeydownAnyEvent(b, dbg, event) ==
    LET pressed == IF event.cls \in {"KeyboardEvent", "MouseEvent"}
                   THEN pressedOf(event) ELSE <<>>
        invoked == invokedFrom(b, pressed, 1)
        thrown  == invoked # <<>> /\ throws(invoked[1].callback)
    IN  [invoked |-> invoked,
         prevented |-> invoked # <<>>,
         logged |-> IF ~thrown /\ dbg
                    THEN <<join(pressed, <<" ", "+", " ">>)>>
                    ELSE <<>>,
         threw |-> thrown]

\* #handleKeydown printing the pressed keys whatever #debug is
handleKeydownEchoing(b, dbg, event) ==
    IF event.cls \in {"KeyboardEvent", "MouseEvent"}
    THEN [invoked |-> invokedFrom(b, pressedOf(event), 1),
          prevented |-> invokedFrom(b, pressedOf(event), 1) # <<>>,
          logged |-> <<join(pressedOf(event), <<" ", "+", " ">>)>>,
          threw |-> FALSE]
    ELSE noEffect

\* #handleKeydown(event): the bindings whose callback it calls, whether it
\* called preventDefault, what it printed with console.log, and whether it
\* ended by the exception of a callback (which skips the rest of the handler)
handleKeydown(b, dbg, event) ==
    IF event.cls \in {"KeyboardEvent", "MouseEvent"}
    THEN LET pressed == pressedOf(event)
             invoked == invokedFrom(b, pressed, 1)
             thrown  == invoked # <<>> /\ throws(invoked[1].callback)
         IN  [invoked |-> invoked,
              prevented |-> invoked # <<>>,
              logged |-> IF ~thrown /\ dbg
                         THEN <<join(pressed, <<" ", "+", " ">>)>>
                         ELSE <<>>,
              threw |-> thrown]
    ELSE noEffect

\* dispatchEvent running the handler whether or not it is still attached
dispatchEventDetached(b, dbg, attached, event) == handleKeydown(b, dbg, event)

\* element.dispatchEvent(event): the handler runs if it is attached for event.type
dispatchEvent(b, dbg, attached, event) ==
    IF event.type \in attached THEN handleKeydown(b, dbg, event) ELSE noEffect

\* an event reaching the handlers of every instance, whatever its target
deliveredAnywhere(b, dbg, attached, element, target, event) ==
    dispatchEvent(b, dbg, attached, event)

\* target.dispatchEvent(event), seen from the instance constructed on element:
\* its handler was added to that element only
delivered(b, dbg, attached, element, target, event) ==
    IF element = target THEN dispatchEvent(b, dbg, attached, event) ELSE noEffect

(***************************************************************************)
(* The state machine: one action per public method and one per event.      *)
(* out holds what the latest call did besides changing the registry: the   *)
(* event dispatched, the bindings whose callback ran, preventDefault,       *)
(* console.log and console.warn output, and whether it threw.              *)
(***************************************************************************)

called(op, r) ==
    [op |-> op, threw |-> r.threw, warned |-> r.warned, event |-> plainEvent(""),
     invoked |-> <<>>, prevented |-> FALSE, logged |-> <<>>]

quiet == [threw |-> FALSE, warned |-> <<>>]

\* the fields of an instance after its constructor
constructed == [bindings |-> <<>>, debug |-> FALSE, listeners |-> {"keydown", "click"}]

\* two instances constructed, each on its own element
Init ==
    /\ bindings = constructed.bindings
    /\ debug = constructed.debug
    /\ listeners = constructed.listeners
    /\ second = constructed
    /\ out = called("new", quiet)

BindCall(keys, a) ==
    LET r == bind(bindings, keys, a.callback, a.description, a.enabled)
    IN  /\ Len(r.bindings) <= MaxBindings
        /\ bindings' = r.bindings
        /\ out' = called("bind", r)
        /\ UNCHANGED <<debug, listeners, second>>

UnbindCall(keys) ==
    LET r == unbind(bindings, keys)
    IN  /\ bindings' = r.bindings
        /\ out' = called("unbind", r)
        /\ UNCHANGED <<debug, listeners, second>>

RebindCall(keys, a) ==
    LET r == rebind(bindings, keys, a.callback, a.description, a.enabled)
    IN  /\ bindings' = r.bindings
        /\ out' = called("rebind", r)
        /\ UNCHANGED <<debug, listeners, second>>

EnableCall(keys) ==
    LET r == enable(bindings, keys)
    IN  /\ bindings' = r.bindings
        /\ out' = called("enable", r)
        /\ UNCHANGED <<debug, listeners, second>>

DisableCall(keys) ==
    LET r == disable(bindings, keys)
    IN  /\ bindings' = r.bindings
        /\ out' = called("disable", r)
        /\ UNCHANGED <<debug, listeners, second>>

DebugCall(enabled) ==
    /\ debug' = enabled
    /\ out' = called("debug", quiet)
    /\ UNCHANGED <<bindings, listeners, second>>

DestroyCall ==
    LET r == destroy(bindings, listeners)
    IN  /\ bindings' = r.bindings
        /\ listeners' = r.listeners
        /\ out' = called("destroy", quiet)
        /\ UNCHANGED <<debug, second>>

DispatchCall(event) ==
    LET r == dispatchEvent(bindings, debug, listeners, event)
    IN  /\ out' = [op |-> "event", threw |-> r.threw, warned |-> <<>>,
                   event |-> event, invoked |-> r.invoked,
                   prevented |-> r.prevented, logged |-> r.logged]
        /\ UNCHANGED <<bindings, debug, listeners, second>>

DocsCall(readable) ==
    /\ out' = [op |-> "docs", threw |-> FALSE, warned |-> <<>>,
               readable |-> readable, returned |-> docs(bindings, readable)]
    /\ UNCHANGED <<bindings, debug, listeners, second>>

\* the calls of an untyped client; #debug holds a value of any type
InitArgs ==
    /\ bindings = constructed.bindings
    /\ debug = jsBoolean(constructed.debug)
    /\ listeners = constructed.listeners
    /\ second = constructed
    /\ out = called("new", quiet)

BindArgs(keys, callback, description, enabled) ==
    LET r == bindArgs(bindings, keys, callback, description, enabled)
    IN  /\ Len(r.bindings) <= MaxBindings
        /\ bindings' = r.bindings
        /\ out' = called("bind", r)
        /\ UNCHANGED <<debug, listeners, second>>

UnbindArgs(keys) ==
    LET r == unbindArgs(bindings, keys)
    IN  /\ bindings' = r.bindings
        /\ out' = called("unbind", r)
        /\ UNCHANGED <<debug, listeners, second>>

RebindArgs(keys, callback, description, enabled) ==
    LET r == rebindArgs(bindings, keys, callback, description, enabled)
    IN  /\ bindings' = r.bindings
        /\ out' = called("rebind", r)
        /\ UNCHANGED <<debug, listeners, second>>

EnableArgs(keys) ==
    LET r == enableArgs(bindings, keys)
    IN  /\ bindings' = r.bindings
        /\ out' = called("enable", r)
        /\ UNCHANGED <<debug, listeners, second>>

DisableArgs(keys) ==
    LET r == disableArgs(bindings, keys)
    IN  /\ bindings' = r.bindings
        /\ out' = called("disable", r)
        /\ UNCHANGED <<debug, listeners, second>>

DebugArgs(enabled) ==
    /\ debug' = debugArgs(enabled)
    /\ out' = called("debug", quiet)
    /\ UNCHANGED <<bindings, listeners, second>>

DocsArgs(readable) ==
    LET r == docsArgs(bindings, readable)
    IN  /\ out' = [op |-> "docs", threw |-> r.threw, warned |-> <<>>,
                   readable |-> readable, returned |-> r.returned]
        /\ UNCHANGED <<bindings, debug, listeners, second>>

\* argument values of each kind, well-formed and not
KeysArgs == {jsString(KeyS), jsString(KeyBlank), jsString(<<>>), jsNumber(42), jsUndefined}

CallbackArgs == {jsFunction("cb1"), jsString(KeyS), jsUndefined}

DescriptionArgs == {jsString(<<"s", "a", "v", "e">>), jsNumber(42), jsUndefined}

FlagArgs == {jsBoolean(TRUE), jsBoolean(FALSE), jsString(KeyS), jsNumber(0), jsUndefined}

NextArgs ==
    \/ \E keys \in KeysArgs, callback \in CallbackArgs,
          description \in DescriptionArgs, enabled \in FlagArgs :
          BindArgs(keys, callback, description, enabled)
    \/ \E keys \in KeysArgs : UnbindArgs(keys)
    \/ \E keys \in KeysArgs, callback \in CallbackArgs,
          description \in DescriptionArgs, enabled \in FlagArgs :
          RebindArgs(keys, callback, description, enabled)
    \/ \E keys \in KeysArgs : EnableArgs(keys)
    \/ \E keys \in KeysArgs : DisableArgs(keys)
    \/ \E enabled \in FlagArgs : DebugArgs(enabled)
    \/ \E readable \in FlagArgs : DocsArgs(readable)

SpecArgs == InitArgs /\ [][NextArgs]_vars

Bind(K) == \E keys \in K, a \in CallArgs : BindCall(keys, a)

Unbind(K) == \E keys \in K : UnbindCall(keys)

Rebind(K) == \E keys \in K, a \in CallArgs : RebindCall(keys, a)

Enable(K) == \E keys \in K : EnableCall(keys)

Disable(K) == \E keys \in K : DisableCall(keys)

Debug == \E enabled \in BOOLEAN : DebugCall(enabled)

Destroy == DestroyCall

Dispatch(E) == \E event \in E : DispatchCall(event)

\* the calls a client makes with shortcut strings K, and the events E of the page
Run(K, E) ==
    \/ Bind(K)
    \/ Unbind(K)
    \/ Rebind(K)
    \/ Enable(K)
    \/ Disable(K)
    \/ Destroy
    \/ Dispatch(E)

Next == Run(Keys, Events)

Spec == Init /\ [][Next]_vars

NextGroup == Run(GroupKeys, GroupEvents)

SpecGroup == Init /\ [][NextGroup]_vars

NextAlias == Run(AliasKeys, GroupEvents)

SpecAlias == Init /\ [][NextAlias]_vars

NextPlus == Run(PlusKeys, PlusEvents)

SpecPlus == Init /\ [][NextPlus]_vars

Docs == \E readable \in BOOLEAN : DocsCall(readable)

(***************************************************************************)
(* Two instances, each constructed on its own element.  The calls on the   *)
(* first are the actions above; these are the calls on the second.         *)
(***************************************************************************)

SecondBindCall(keys, a) ==
    LET r == bind(second.bindings, keys, a.callback, a.description, a.enabled)
    IN  /\ Len(r.bindings) <= MaxBindings
        /\ second' = [second EXCEPT !.bindings = r.bindings]
        /\ out' = called("second.bind", r)
        /\ UNCHANGED <<bindings, debug, listeners>>

SecondUnbindCall(keys) ==
    LET r == unbind(second.bindings, keys)
    IN  /\ second' = [second EXCEPT !.bindings = r.bindings]
        /\ out' = called("second.unbind", r)
        /\ UNCHANGED <<bindings, debug, listeners>>

SecondRebindCall(keys, a) ==
    LET r == rebind(second.bindings, keys, a.callback, a.description, a.enabled)
    IN  /\ second' = [second EXCEPT !.bindings = r.bindings]
        /\ out' = called("second.rebind", r)
        /\ UNCHANGED <<bindings, debug, listeners>>

SecondEnableCall(keys) ==
    LET r == enable(second.bindings, keys)
    IN  /\ second' = [second EXCEPT !.bindings = r.bindings]
        /\ out' = called("second.enable", r)
        /\ UNCHANGED <<bindings, debug, listeners>>

SecondDisableCall(keys) ==
    LET r == disable(second.bindings, keys)
    IN  /\ second' = [second EXCEPT !.bindings = r.bindings]
        /\ out' = called("second.disable", r)
        /\ UNCHANGED <<bindings, debug, listeners>>

SecondDebugCall(enabled) ==
    /\ second' = [second EXCEPT !.debug = enabled]
    /\ out' = called("second.debug", quiet)
    /\ UNCHANGED <<bindings, debug, listeners>>

SecondDestroyCall ==
    LET r == destroy(second.bindings, second.listeners)
    IN  /\ second' = [second EXCEPT !.bindings = r.bindings,
                                    !.listeners = r.listeners]
        /\ out' = called("second.destroy", quiet)
        /\ UNCHANGED <<bindings, debug, listeners>>

\* an event dispatched on the element of the first or of the second instance:
\* what the handler of each instance did
DispatchAt(target, event) ==
    /\ out' = [op |-> "event", threw |-> FALSE, warned |-> <<>>,
               target |-> target, event |-> event,
               first |-> delivered(bindings, debug, listeners, "first", target, event),
               second |-> delivered(second.bindings, second.debug, second.listeners,
                                    "second", target, event)]
    /\ UNCHANGED <<bindings, debug, listeners, second>>

TwoKeys == {KeyS}

TwoEvents == {keyEvent(<<"s">>, FALSE), clickEvent(FALSE)}

NextTwo ==
    \/ Bind(TwoKeys)
    \/ Unbind(TwoKeys)
    \/ Rebind(TwoKeys)
    \/ Enable(TwoKeys)
    \/ Disable(TwoKeys)
    \/ Debug
    \/ Destroy
    \/ \E keys \in TwoKeys, a \in CallArgs : SecondBindCall(keys, a)
    \/ \E keys \in TwoKeys : SecondUnbindCall(keys)
    \/ \E keys \in TwoKeys, a \in CallArgs : SecondRebindCall(keys, a)
    \/ \E keys \in TwoKeys : SecondEnableCall(keys)
    \/ \E keys \in TwoKeys : SecondDisableCall(keys)
    \/ \E enabled \in BOOLEAN : SecondDebugCall(enabled)
    \/ SecondDestroyCall
    \/ \E target \in {"first", "second"}, event \in TwoEvents : DispatchAt(target, event)

SpecTwo == Init /\ [][NextTwo]_vars

\* the same client also listing the shortcuts with docs()
NextDocs == Run(Keys, Events) \/ Docs

SpecDocs == Init /\ [][NextDocs]_vars

SpellingEvents ==
    {keyEvent(<<"s">>, TRUE), keyEvent(<<"E", "s", "c", "a", "p", "e">>, FALSE)}

NextSpelling == Run(SpellingKeys, SpellingEvents)

SpecSpelling == Init /\ [][NextSpelling]_vars

\* a keydown event with the modifier flags of mods set
keyEventWith(key, mods) ==
    [cls |-> "KeyboardEvent", type |-> "keydown", key |-> key,
     ctrlKey |-> "ctrl" \in mods, altKey |-> "alt" \in mods,
     shiftKey |-> "shift" \in mods, metaKey |-> "meta" \in mods]

\* a click event with the modifier flags of mods set
clickEventWith(mods) ==
    [cls |-> "MouseEvent", type |-> "click", key |-> <<>>,
     ctrlKey |-> "ctrl" \in mods, altKey |-> "alt" \in mods,
     shiftKey |-> "shift" \in mods, metaKey |-> "meta" \in mods]

Modifiers == {"ctrl", "alt", "shift", "meta"}

KeyControl == <<"C", "o", "n", "t", "r", "o", "l">>

\* the key value older browsers report for the Escape key
KeyEscLegacy == <<"E", "s", "c">>

\* keys and clicks under every combination of modifiers; the keydown of the
\* Control key has the ctrl flag set
PressedEvents ==
    {keyEventWith(key, mods) : key \in {<<"s">>, <<"S">>, KeyEscLegacy},
                               mods \in SUBSET Modifiers}
    \cup {keyEventWith(KeyControl, mods) :
             mods \in {m \in SUBSET Modifiers : "ctrl" \in m}}
    \cup {clickEventWith(mods) : mods \in SUBSET Modifiers}

\* a client binding a bare modifier and a key, with debug mode switched
NextPressed == Bind(DebugKeys) \/ Disable(DebugKeys) \/ Debug \/ Dispatch(PressedEvents)

SpecPressed == Init /\ [][NextPressed]_vars

\* the parts a shortcut string is written with: blank and empty parts, keys,
\* a key with a blank before it, a modifier, and the alias of the space key
ParseTokens ==
    {<<>>, <<" ">>, <<"c">>, <<" ", "v">>, <<"c", "t", "r", "l">>,
     <<"S", "p", "a", "c", "e">>}

MaxParts == 3

\* the shortcut strings of at most n parts joined by "+" or "|"
RECURSIVE shortcutStrings(_)
shortcutStrings(n) ==
    IF n = 1 THEN ParseTokens
    ELSE LET shorter == shortcutStrings(n - 1)
         IN  shorter \cup {s \o <<sep>> \o part :
                              s \in shorter, sep \in {"+", BAR}, part \in ParseTokens}

\* alternation groups of two alternatives, and the shortcut strings made of two
\* of them, alone or after a modifier
GroupParts ==
    {a \o <<BAR>> \o b :
        a, b \in {<<>>, <<"c">>, <<"v">>, <<"S", "p", "a", "c", "e">>}}

TwoGroupStrings ==
    {g1 \o PLUS \o g2 : g1, g2 \in GroupParts}
    \cup {KeyCtrl \o PLUS \o g1 \o PLUS \o g2 : g1, g2 \in GroupParts}

ParseStrings == shortcutStrings(MaxParts) \cup TwoGroupStrings

\* a shortcut string about to be given to #parseKeys
InitParse ==
    /\ bindings = constructed.bindings
    /\ debug = constructed.debug
    /\ listeners = constructed.listeners
    /\ second = constructed
    /\ \E keys \in ParseStrings : out = [op |-> "keys", keys |-> keys]

\* this.#parseKeys(keys), as bind, unbind, rebind and #toggle call it
ParseCall ==
    /\ out.op = "keys"
    /\ out' = [op |-> "parse", keys |-> out.keys, parsed |-> parseKeys(out.keys)]
    /\ UNCHANGED <<bindings, debug, listeners, second>>

NextParse == ParseCall

SpecParse == InitParse /\ [][NextParse]_vars

\* bind with a callback that throws when it is called
BindThrowing(K) ==
    \E keys \in K :
        BindCall(keys, [callback |-> "cbThrow", description |-> "", enabled |-> TRUE])

\* the same client also switching debug mode on and off, some of its callbacks
\* throwing
NextDebug == Run(DebugKeys, DebugEvents) \/ Debug \/ BindThrowing(DebugKeys)

SpecDebug == Init /\ [][NextDebug]_vars

(***************************************************************************)
(* Callbacks that call the registry they are bound in.  Each one makes one *)
(* call of a public method when #handleKeydown invokes it.                 *)
(***************************************************************************)

ReentrantCallbacks ==
    {"cbBind", "cbUnbind", "cbRebind", "cbEnable", "cbDisable", "cbDestroy"}

\* binding.callback(event) for a callback of the registry: the bindings and
\* the attached listeners when it returns, and whether it threw
callbackEffect(callback, b, attached) ==
    LET kept(r) == [bindings |-> r.bindings, listeners |-> attached, threw |-> r.threw]
    IN  CASE callback = "cbBind"    -> kept(bind(b, KeyCtrlS, "cb1", "", TRUE))
          [] callback = "cbUnbind"  -> kept(unbind(b, KeyS))
          [] callback = "cbRebind"  -> kept(rebind(b, KeyS, "cb2", "save", TRUE))
          [] callback = "cbEnable"  -> kept(enable(b, KeyCtrlS))
          [] callback = "cbDisable" -> kept(disable(b, KeyS))
          [] callback = "cbDestroy" ->
                [bindings |-> destroy(b, attached).bindings,
                 listeners |-> destroy(b, attached).listeners, threw |-> FALSE]
          [] OTHER -> [bindings |-> b, listeners |-> attached, threw |-> throws(callback)]

\* the for...of loop without its break: after a callback returns, the loop goes
\* on over the bindings the callback left
RECURSIVE callbackLoopNoBreak(_, _, _, _)
callbackLoopNoBreak(b, attached, pressed, i) ==
    IF i > Len(b)
    THEN [invoked |-> <<>>, bindings |-> b, listeners |-> attached, threw |-> FALSE]
    ELSE IF matches(b[i], pressed)
         THEN LET e == callbackEffect(b[i].callback, b, attached)
                  rest == callbackLoopNoBreak(e.bindings, e.listeners, pressed, i + 1)
              IN  IF e.threw
                  THEN [invoked |-> <<b[i]>>, bindings |-> e.bindings,
                        listeners |-> e.listeners, threw |-> TRUE]
                  ELSE [rest EXCEPT !.invoked = <<b[i]>> \o @]
    ELSE callbackLoopNoBreak(b, attached, pressed, i + 1)

\* the for...of loop over this.#bindings from index i, the callback of the
\* first match run to its end, then the break
RECURSIVE callbackLoop(_, _, _, _)
callbackLoop(b, attached, pressed, i) ==
    IF i > Len(b)
    THEN [invoked |-> <<>>, bindings |-> b, listeners |-> attached, threw |-> FALSE]
    ELSE IF matches(b[i], pressed)
         THEN [invoked |-> <<b[i]>>] @@ callbackEffect(b[i].callback, b, attached)
    ELSE callbackLoop(b, attached, pressed, i + 1)

\* the rest of #handleKeydown after its loop l: preventDefault was called
\* before a callback, console.log is reached unless the callback threw
afterLoop(l, dbg, pressed) ==
    [invoked |-> l.invoked,
     prevented |-> l.invoked # <<>>,
     logged |-> IF ~l.threw /\ dbg
                THEN <<join(pressed, <<" ", "+", " ">>)>>
                ELSE <<>>,
     threw |-> l.threw,
     bindings |-> l.bindings,
     listeners |-> l.listeners]

\* #handleKeydown(event) with the effects of the callback it calls
handleKeydownCalling(b, dbg, attached, event) ==
    IF event.cls \in {"KeyboardEvent", "MouseEvent"}
    THEN afterLoop(callbackLoop(b, attached, pressedOf(event), 1), dbg, pressedOf(event))
    ELSE [invoked |-> <<>>, prevented |-> FALSE, logged |-> <<>>, threw |-> FALSE,
          bindings |-> b, listeners |-> attached]

\* the state after a handler that ended as r for event
Handled(event, r) ==
    /\ Len(r.bindings) <= MaxBindings
    /\ bindings' = r.bindings
    /\ listeners' = r.listeners
    /\ out' = [op |-> "event", threw |-> r.threw, warned |-> <<>>,
               event |-> event, invoked |-> r.invoked,
               prevented |-> r.prevented, logged |-> r.logged]
    /\ UNCHANGED <<debug, second>>

DispatchCallingCall(event) ==
    Handled(event,
            IF event.type \in listeners
            THEN handleKeydownCalling(bindings, debug, listeners, event)
            ELSE [invoked |-> <<>>, prevented |-> FALSE, logged |-> <<>>,
                  threw |-> FALSE, bindings |-> bindings, listeners |-> listeners])

ReentrantKeys == {KeyS, KeyCtrlS, KeySCtrl}

BindReentrant(K) ==
    \E keys \in K, callback \in ReentrantCallbacks :
        BindCall(keys, [callback |-> callback, description |-> "", enabled |-> TRUE])

DispatchCalling(E) == \E event \in E : DispatchCallingCall(event)

\* a client whose callbacks call the registry
NextReentrant ==
    \/ Bind({KeyCtrlS})
    \/ BindReentrant(ReentrantKeys)
    \/ Disable({KeyS})
    \/ DispatchCalling({keyEvent(<<"s">>, ctrl) : ctrl \in BOOLEAN})

SpecReentrant == Init /\ [][NextReentrant]_vars

(***************************************************************************)
(* Vocabulary of the properties                                            *)
(***************************************************************************)

seqSet(arr) == {arr[i] : i \in DOMAIN arr}

minOf(S) == CHOOSE x \in S : \A y \in S : x <= y

\* the key joins a shortcut string stands for
joinsOf(keys) == {keysJoin(q) : q \in seqSet(parsedKeys(keys).value)}

\* the indices of the bindings registered under key join kj
indicesOf(b, kj) == {i \in DOMAIN b : keysJoin(b[i].keys) = kj}

\* the tokens of an event: its active modifiers and its main key or click
modifiersOf(event) ==
    {m \in {<<"c", "t", "r", "l">>, <<"a", "l", "t">>, <<"s", "h", "i", "f", "t">>,
            <<"m", "e", "t", "a">>} :
        \/ m = <<"c", "t", "r", "l">> /\ event.ctrlKey
        \/ m = <<"a", "l", "t">> /\ event.altKey
        \/ m = <<"s", "h", "i", "f", "t">> /\ event.shiftKey
        \/ m = <<"m", "e", "t", "a">> /\ event.metaKey}

mainOf(event) ==
    IF event.cls = "MouseEvent" THEN <<"c", "l", "i", "c", "k">>
    ELSE toLowerCase(event.key)

tokensOf(event) == modifiersOf(event) \cup {mainOf(event)}

RECURSIVE sortedSeqOf(_)
sortedSeqOf(S) ==
    IF S = {} THEN <<>>
    ELSE LET x == CHOOSE x \in S : \A y \in S : x = y \/ strLess(x, y)
         IN  <<x>> \o sortedSeqOf(S \ {x})

\* canonical form: the tokens sorted and joined with "+"
canonical(keys) == join(sort(keys), PLUS)

canonicalOf(event) == join(sortedSeqOf(tokensOf(event)), PLUS)

\* the binding's tokens are exactly the event's tokens, in any order
sameTokens(keys, event) ==
    /\ Len(keys) = Cardinality(tokensOf(event))
    /\ seqSet(keys) = tokensOf(event)

\* a key press or click that reaches the handler
qualifying(event) ==
    /\ event.cls \in {"KeyboardEvent", "MouseEvent"}
    /\ event.type \in listeners

(***************************************************************************)
(* Properties                                                              *)
(***************************************************************************)

\* C1: the registry never holds two bindings whose key sequences join with "+"
\* to the same string, whatever calls were made (SpecGroup binds and rebinds
\* multi-expansion strings such as "ctrl+c|c").
C1_UniqueJoins ==
    \A i, j \in DOMAIN bindings :
        i # j => keysJoin(bindings[i].keys) # keysJoin(bindings[j].keys)

C1_Witness ==
    /\ out.op \in {"bind", "rebind"}
    /\ out.warned # <<>>
    /\ Len(bindings) >= 2

\* C2: a qualifying event invokes at most one callback, that of the first
\* binding in registration order that is enabled and whose canonical key set
\* equals the canonical pressed set; a disabled binding never blocks a later one.
C2_FirstEnabledMatch ==
    [][out'.op = "event" =>
       \A e \in Events :
          (DispatchCall(e) /\ qualifying(e)) =>
              LET m == {i \in DOMAIN bindings :
                           /\ bindings[i].enabled
                           /\ canonical(bindings[i].keys) = canonicalOf(e)}
              IN  /\ Len(out'.invoked) <= 1
                  /\ IF m = {} THEN out'.invoked = <<>>
                     ELSE out'.invoked = <<bindings[minOf(m)]>>]_vars

C2_Witness ==
    /\ out.op = "event"
    /\ Len(bindings) >= 2
    /\ ~bindings[1].enabled
    /\ canonical(bindings[1].keys) = canonical(bindings[2].keys)
    /\ out.invoked = <<bindings[2]>>

C4_DuplicateBindIsNoOp ==
    [][out'.op = "bind" =>
       \A keys \in Keys :
          \A kj \in joinsOf(keys) :
              registered(bindings, kj) =>
                  \A a \in CallArgs :
                      BindCall(keys, a) =>
                          /\ ~out'.threw
                          /\ indicesOf(bindings', kj) = indicesOf(bindings, kj)
                          /\ \A i \in indicesOf(bindings, kj) :
                                bindings'[i] = bindings[i]]_vars

C4_Witness ==
    /\ out.op = "bind"
    /\ ~out.threw
    /\ out.warned # <<>>
    /\ Len(bindings) >= 1

\* the callbacks an event would invoke in registry b of this instance
callbacksInvoked(b, event) ==
    LET r == dispatchEvent(b, debug, listeners, event)
    IN  {r.invoked[k].callback : k \in DOMAIN r.invoked}

\* an event matching key sequence q
matching(event, q) == qualifying(event) /\ canonicalOf(event) = canonical(q)

\* the bindings of b registered under none of the joins J, in their order
RECURSIVE others(_, _)
others(b, J) ==
    IF b = <<>> THEN <<>>
    ELSE IF keysJoin(Head(b).keys) \in J THEN others(Tail(b), J)
    ELSE <<Head(b)>> \o others(Tail(b), J)

\* the registry has no two bindings with the same canonical key set
unambiguous(b) ==
    \A i, j \in DOMAIN b : i # j => canonical(b[i].keys) # canonical(b[j].keys)

\* what C5 claims of a step
unbindReleases ==
    out'.op = "unbind" =>
        \A keys \in Keys :
            (UnbindCall(keys) /\ ~out'.threw) =>
                /\ \A kj \in joinsOf(keys) : ~registered(bindings', kj)
                /\ bindings' = others(bindings, joinsOf(keys))
                /\ \A i \in DOMAIN bindings, e \in Events :
                      (/\ keysJoin(bindings[i].keys) \in joinsOf(keys)
                       /\ matching(e, bindings[i].keys))
                      => bindings[i].callback \notin callbacksInvoked(bindings', e)

\* C5, as claimed: after unbind(s) no binding with a join of s remains, no event
\* matching s invokes the callback that was bound for s, and every other binding
\* is kept as it was, in the same relative order.
C5_UnbindReleases == [][unbindReleases]_vars

\* C5 holds of the steps from a registry without order variants of one key set.
C5_WithoutOrderVariants == [][unambiguous(bindings) => unbindReleases]_vars

\* what C6 claims of a step
rebindReplaces ==
    out'.op = "rebind" =>
        \A keys \in Keys, a \in CallArgs :
            (RebindCall(keys, a) /\ ~out'.threw) =>
                \A i \in DOMAIN bindings :
                    keysJoin(bindings[i].keys) \in joinsOf(keys) =>
                        LET q == bindings[i].keys
                        IN  /\ \E j \in DOMAIN bindings' :
                                  bindings'[j] = keyBinding(q, a.callback,
                                                            a.description, a.enabled)
                            /\ \A e \in Events :
                                  matching(e, q) =>
                                      /\ a.enabled =>
                                            callbacksInvoked(bindings', e)
                                                = {a.callback}
                                      /\ bindings[i].callback # a.callback =>
                                            bindings[i].callback
                                                \notin callbacksInvoked(bindings', e)

\* C6, as claimed: after rebind(s, newCb, d, e) of a registered s the binding for
\* s carries newCb, d and e, and every event matching s invokes newCb only (when
\* e is true) and never the callback it replaced.
C6_RebindReplaces == [][rebindReplaces]_vars

\* C6 holds of the steps from a registry without order variants of one key set.
C6_WithoutOrderVariants == [][unambiguous(bindings) => rebindReplaces]_vars

\* C7: rebind never creates a binding: the joins registered after a rebind call
\* are those registered before it, and as many bindings, also when only some of
\* the expansions of the shortcut string were registered.
C7_RebindCreatesNothing ==
    [][out'.op = "rebind" =>
          /\ {keysJoin(bindings'[i].keys) : i \in DOMAIN bindings'}
                 = {keysJoin(bindings[i].keys) : i \in DOMAIN bindings}
          /\ Len(bindings') = Len(bindings)]_vars

C7_Witness ==
    /\ out.op = "rebind"
    /\ Len(out.warned) = 1
    /\ Len(bindings) = 1
    /\ out.warned[1] # keysJoin(bindings[1].keys)

\* the frame of enable and disable: only the enabled flag of the bindings of s
toggled(b, keys, enabled) ==
    [i \in DOMAIN b |->
        IF keysJoin(b[i].keys) \in joinsOf(keys)
        THEN keyBinding(b[i].keys, b[i].callback, b[i].description, enabled)
        ELSE b[i]]

\* what C8 claims of a step
disableEnable ==
    /\ out'.op = "disable" =>
          \A keys \in Keys :
              (DisableCall(keys) /\ ~out'.threw) =>
                  /\ bindings' = toggled(bindings, keys, FALSE)
                  /\ \A i \in DOMAIN bindings, e \in Events :
                        (/\ keysJoin(bindings[i].keys) \in joinsOf(keys)
                         /\ matching(e, bindings[i].keys))
                        => bindings[i].callback
                               \notin callbacksInvoked(bindings', e)
    /\ out'.op = "enable" =>
          \A keys \in Keys :
              (EnableCall(keys) /\ ~out'.threw) =>
                  /\ bindings' = toggled(bindings, keys, TRUE)
                  /\ \A i \in DOMAIN bindings, e \in Events :
                        (/\ keysJoin(bindings[i].keys) \in joinsOf(keys)
                         /\ matching(e, bindings[i].keys))
                        => callbacksInvoked(bindings', e) = {bindings[i].callback}

\* C8, as claimed: disable(s) makes events matching s stop invoking the binding's
\* callback, enable(s) makes them invoke it; both change only the enabled flag of
\* the bindings of s.
C8_DisableEnable == [][disableEnable]_vars

\* C8 holds of the steps from a registry without order variants of one key set.
C8_WithoutOrderVariants == [][unambiguous(bindings) => disableEnable]_vars

\* C9: destroy() clears the bindings and detaches both listeners without
\* throwing; once detached the listeners stay detached and no dispatched event
\* invokes a callback; a second destroy() changes nothing.
C9_DestroyIsFinal ==
    [][/\ (out'.op = "destroy" /\ DestroyCall) =>
              /\ bindings' = <<>>
              /\ listeners' = {}
              /\ ~out'.threw
              /\ (bindings = <<>> /\ listeners = {}) =>
                     UNCHANGED <<bindings, debug, listeners>>
       /\ listeners = {} =>
              /\ listeners' = {}
              /\ out'.op = "event" =>
                     \A e \in Events : DispatchCall(e) => out'.invoked = <<>>]_vars

C9_Witness ==
    /\ out.op = "event"
    /\ listeners = {}
    /\ out.invoked = <<>>
    /\ \E i \in DOMAIN bindings :
          bindings[i].enabled /\ canonical(bindings[i].keys) = canonicalOf(out.event)

\* the shortcut strings "P+a1", ..., "P+an" of an alternation group "P+a1|...|an"
alternativesOf(keys) ==
    LET parts == split(keys, "+")
        g     == CHOOSE i \in DOMAIN parts : includes(parts[i], BAR)
        alts  == split(parts[g], BAR)
    IN  [k \in DOMAIN alts |-> join([parts EXCEPT ![g] = alts[k]], PLUS)]

\* binding the shortcut strings of list one after another
RECURSIVE bindAll(_, _, _)
bindAll(b, list, a) ==
    IF list = <<>> THEN b
    ELSE bindAll(bind(b, Head(list), a.callback, a.description, a.enabled).bindings,
                 Tail(list), a)

\* C10, as claimed: binding an alternation group "P+a1|...|an" leaves the
\* registry as binding "P+a1", ..., "P+an" one after another does.
C10_GroupIsSequence ==
    [][out'.op = "bind" =>
       \A keys \in {k \in AliasKeys : includes(k, BAR)}, a \in CallArgs :
          BindCall(keys, a) =>
              bindings' = bindAll(bindings, alternativesOf(keys), a)]_vars

\* C11, as claimed: whatever public calls were made, no two bindings of the
\* registry have equal canonical (sorted) key sets.
C11_NoEqualCanonical ==
    \A i, j \in DOMAIN bindings :
        i # j => canonical(bindings[i].keys) # canonical(bindings[j].keys)

\* the bindings of b whose keys join to kj, in registry order
withJoin(b, kj) == SelectSeq(b, LAMBDA binding : keysJoin(binding.keys) = kj)

partsOf(keys) ==
    LET parts == split(toLowerCase(keys), "+")
    IN  [i \in DOMAIN parts |-> trim(parts[i])]

\* the parts that are alternation groups
groupsOf(keys) == {i \in DOMAIN partsOf(keys) : includes(partsOf(keys)[i], BAR)}

\* the alias-resolved parts outside the alternation groups, in written order
prefixOf(keys) ==
    LET parts == partsOf(keys)
        RECURSIVE from(_)
        from(i) == IF i > Len(parts) THEN <<>>
                   ELSE IF i \in groupsOf(keys) THEN from(i + 1)
                   ELSE <<aliasOr(parts[i])>> \o from(i + 1)
    IN  from(1)

\* the alternatives of group g that are not blank in the shortcut string
writtenAlternatives(keys, g) ==
    SelectSeq(split(partsOf(keys)[g], BAR), LAMBDA alt : trim(alt) # <<>>)

\* C12, as claimed: for a string with one alternation group the parser returns
\* the prefix followed by the alias-resolved alternative for every alternative
\* that is not blank in the string, in written order, and throws exactly when
\* every alternative is blank.
C12_OnePerWrittenAlternative ==
    (out.op = "parse" /\ Cardinality(groupsOf(out.keys)) = 1) =>
        LET g    == CHOOSE i \in groupsOf(out.keys) : TRUE
            alts == writtenAlternatives(out.keys, g)
        IN  /\ out.parsed.threw <=> alts = <<>>
            /\ ~out.parsed.threw =>
                  out.parsed.value
                      = [k \in DOMAIN alts |-> prefixOf(out.keys) \o <<aliasOr(alts[k])>>]

\* keys that is not a string, or is empty or blank
malformedKeys(v) == typeOf(v) # "string" \/ trim(v.string) = <<>>

\* a callback that is not callable
malformedCallback(v) == typeOf(v) # "function"

\* a description that is given and is not a string
malformedDescription(v) == typeOf(v) \notin {"string", "undefined"}

\* a flag (enabled, readable, the debug flag) that is given and is not a boolean
malformedFlag(v) == typeOf(v) \notin {"boolean", "undefined"}

\* the call threw and left the instance as it was
rejected == out'.threw /\ UNCHANGED <<bindings, debug, listeners>>

\* C14, as claimed: every public operation called with a malformed argument
\* throws and leaves the bindings, the debug flag and the listeners unchanged.
C14_MalformedThrows ==
    [][/\ out'.op \in {"bind", "rebind"} =>
              \A keys \in KeysArgs, callback \in CallbackArgs,
                 description \in DescriptionArgs, enabled \in FlagArgs :
                  (/\ \/ BindArgs(keys, callback, description, enabled)
                      \/ RebindArgs(keys, callback, description, enabled)
                   /\ \/ malformedKeys(keys)
                      \/ malformedCallback(callback)
                      \/ malformedDescription(description)
                      \/ malformedFlag(enabled))
                      => rejected
       /\ out'.op \in {"unbind", "enable", "disable"} =>
              \A keys \in KeysArgs :
                  (/\ UnbindArgs(keys) \/ EnableArgs(keys) \/ DisableArgs(keys)
                   /\ malformedKeys(keys))
                      => rejected
       /\ out'.op = "docs" =>
              \A readable \in FlagArgs :
                  (/\ out'.readable = readable
                   /\ DocsArgs(readable)
                   /\ malformedFlag(readable))
                      => rejected
       /\ out'.op = "debug" =>
              \A enabled \in FlagArgs :
                  (DebugArgs(enabled) /\ malformedFlag(enabled)) => rejected]_vars

\* C15: a bind call handles each expansion on its own: it does not throw, every
\* expansion that was registered keeps its binding and position, and every
\* expansion that was not registered is bound with the arguments of the call.
C15_ExpansionsIndependent ==
    [][out'.op = "bind" =>
       \A keys \in GroupKeys, a \in CallArgs :
          BindCall(keys, a) =>
              /\ ~out'.threw
              /\ \A kj \in joinsOf(keys) :
                    IF registered(bindings, kj)
                    THEN /\ indicesOf(bindings', kj) = indicesOf(bindings, kj)
                         /\ withJoin(bindings', kj) = withJoin(bindings, kj)
                    ELSE /\ Len(withJoin(bindings', kj)) = 1
                         /\ withJoin(bindings', kj)[1].callback = a.callback
                         /\ withJoin(bindings', kj)[1].description = a.description
                         /\ withJoin(bindings', kj)[1].enabled = a.enabled]_vars

C15_Witness ==
    /\ out.op = "bind"
    /\ out.warned = <<KeyCtrlV>>
    /\ Len(bindings) = 2
    /\ keysJoin(bindings[1].keys) = KeyCtrlV
    /\ keysJoin(bindings[2].keys) = KeyCtrlC
    /\ bindings[1].callback # bindings[2].callback

C17_EveryEventEchoed ==
    [][(out'.op = "event" /\ debug /\ qualifying(out'.event)) =>
          Len(out'.logged) = 1]_vars

\* the calls on the first instance and on the second
FirstOps == {"bind", "unbind", "rebind", "enable", "disable", "debug", "destroy"}

SecondOps ==
    {"second.bind", "second.unbind", "second.rebind", "second.enable",
     "second.disable", "second.debug", "second.destroy"}

\* C18: a call on one instance leaves the bindings and listeners of the other
\* instance unchanged, and an event dispatched on the element of one instance
\* invokes callbacks of that instance's bindings only.
C18_InstancesAreSeparate ==
    [][/\ out'.op \in FirstOps =>
              /\ second'.bindings = second.bindings
              /\ second'.listeners = second.listeners
       /\ out'.op \in SecondOps =>
              /\ bindings' = bindings
              /\ listeners' = listeners
       /\ out'.op = "event" =>
              /\ out'.target = "first" =>
                    /\ out'.second.invoked = <<>>
                    /\ \A k \in DOMAIN out'.first.invoked :
                          out'.first.invoked[k] \in seqSet(bindings)
              /\ out'.target = "second" =>
                    /\ out'.first.invoked = <<>>
                    /\ \A k \in DOMAIN out'.second.invoked :
                          out'.second.invoked[k] \in seqSet(second.bindings)]_vars

C18_Witness ==
    /\ out.op = "event"
    /\ out.target = "first"
    /\ out.event = keyEvent(<<"s">>, FALSE)
    /\ "keydown" \in listeners
    /\ "keydown" \in second.listeners
    /\ bindings = <<>>
    /\ Len(second.bindings) = 1
    /\ second.bindings[1].enabled
    /\ out.first.invoked = <<>>
    /\ out.second.invoked = <<>>

\* the handler of the instance with these listeners runs for the event on target
handledBy(attached, element, target, event) ==
    /\ element = target
    /\ event.cls \in {"KeyboardEvent", "MouseEvent"}
    /\ event.type \in attached

noneRegistered(b, keys) == \A kj \in joinsOf(keys) : ~registered(b, kj)

\* C20: unbind, rebind, enable and disable do not throw for expansions that are
\* not registered; when none is registered the registry stays as it was, and
\* when some are, those are removed, replaced, enabled or disabled all the same.
C20_UnregisteredIsNoOp ==
    [][out'.op \in {"unbind", "rebind", "enable", "disable"} =>
       \A keys \in GroupKeys :
          /\ (out'.op = "unbind" /\ UnbindCall(keys)) =>
                /\ ~out'.threw
                /\ noneRegistered(bindings, keys) => bindings' = bindings
                /\ noneRegistered(bindings', keys)
          /\ (out'.op = "enable" /\ EnableCall(keys)) =>
                /\ ~out'.threw
                /\ noneRegistered(bindings, keys) => bindings' = bindings
                /\ \A kj \in joinsOf(keys) : \A i \in indicesOf(bindings, kj) :
                      bindings'[i].enabled
          /\ (out'.op = "disable" /\ DisableCall(keys)) =>
                /\ ~out'.threw
                /\ noneRegistered(bindings, keys) => bindings' = bindings
                /\ \A kj \in joinsOf(keys) : \A i \in indicesOf(bindings, kj) :
                      ~bindings'[i].enabled
          /\ out'.op = "rebind" =>
                \A a \in CallArgs :
                   RebindCall(keys, a) =>
                      /\ ~out'.threw
                      /\ noneRegistered(bindings, keys) => bindings' = bindings
                      /\ \A kj \in joinsOf(keys) :
                            registered(bindings, kj) =>
                                /\ Len(withJoin(bindings', kj)) = 1
                                /\ withJoin(bindings', kj)[1].callback = a.callback
                                /\ withJoin(bindings', kj)[1].description = a.description
                                /\ withJoin(bindings', kj)[1].enabled = a.enabled]_vars

C20_Witness ==
    /\ out.op = "disable"
    /\ out.warned = <<KeyCtrlC>>
    /\ Len(bindings) = 1
    /\ keysJoin(bindings[1].keys) = KeyCtrlV
    /\ ~bindings[1].enabled

\* the active modifiers of an event in the order ctrl, alt, shift, meta
modifiersInOrder(event) ==
    SelectSeq(<<<<"c", "t", "r", "l">>, <<"a", "l", "t">>, <<"s", "h", "i", "f", "t">>,
                <<"m", "e", "t", "a">>>>,
              LAMBDA m : m \in modifiersOf(event))

\* the key of the event is one of the modifier keys Control, Alt, Shift, Meta
isModifierKey(event) ==
    /\ event.cls = "KeyboardEvent"
    /\ toLowerCase(event.key) \in {<<"c", "o", "n", "t", "r", "o", "l">>, <<"a", "l", "t">>,
                                   <<"s", "h", "i", "f", "t">>, <<"m", "e", "t", "a">>}

\* the pressed tokens of the claim: modifiers in order, then click or the
\* lower-cased key, a modifier key adding no token of its own
pressedAsClaimed(event) ==
    modifiersInOrder(event)
    \o (IF event.cls = "MouseEvent" THEN <<<<"c", "l", "i", "c", "k">>>>
        ELSE IF isModifierKey(event) THEN <<>>
        ELSE <<toLowerCase(event.key)>>)

\* C21, as claimed: the pressed tokens of an event are its active modifiers in
\* the order ctrl, alt, shift, meta, followed by click or by the lower-cased
\* key; debug prints them in that order; the keydown of a modifier key gives
\* the modifier token once, so that an enabled binding for "ctrl" fires on it.
C21_PressedTokens ==
    [][(out'.op = "event" /\ qualifying(out'.event)) =>
          /\ debug => out'.logged = <<join(pressedAsClaimed(out'.event), <<" ", "+", " ">>)>>
          /\ (/\ out'.event = keyEventWith(KeyControl, {"ctrl"})
              /\ \E i \in DOMAIN bindings :
                    bindings[i].enabled /\ bindings[i].keys = <<<<"c", "t", "r", "l">>>>)
                 => /\ Len(out'.invoked) = 1
                    /\ out'.invoked[1].keys = <<<<"c", "t", "r", "l">>>>]_vars

\* C22: preventDefault is called for an event exactly when a callback is
\* invoked for it, that is when some enabled binding has the canonical keys of
\* the event: not when no binding matches, not when every match is disabled.
C22_PreventedIffInvoked ==
    [][out'.op = "event" =>
          /\ out'.prevented <=> out'.invoked # <<>>
          /\ out'.prevented <=>
                /\ qualifying(out'.event)
                /\ \E i \in DOMAIN bindings :
                      /\ bindings[i].enabled
                      /\ canonical(bindings[i].keys) = canonicalOf(out'.event)]_vars

C22_Witness ==
    /\ out.op = "event"
    /\ qualifying(out.event)
    /\ bindings # <<>>
    /\ \A i \in DOMAIN bindings :
          ~bindings[i].enabled /\ canonical(bindings[i].keys) = canonicalOf(out.event)
    /\ ~out.prevented

\* C23: shortcut strings that differ only in letter case, in blanks around the
\* "+"-separated parts or in alias spelling are one identity: bind, unbind,
\* rebind, enable and disable do the same whichever spelling they are given; in
\* particular, once one spelling is bound, bind with another is rejected as a
\* duplicate and unbind with another removes the binding.
C23_SpellingsAreOneIdentity ==
    \A class \in SpellingClasses :
        \A k1, k2 \in class :
            /\ joinsOf(k1) = joinsOf(k2)
            /\ unbind(bindings, k1) = unbind(bindings, k2)
            /\ enable(bindings, k1) = enable(bindings, k2)
            /\ disable(bindings, k1) = disable(bindings, k2)
            /\ \A a \in CallArgs :
                  /\ bind(bindings, k1, a.callback, a.description, a.enabled)
                        = bind(bindings, k2, a.callback, a.description, a.enabled)
                  /\ rebind(bindings, k1, a.callback, a.description, a.enabled)
                        = rebind(bindings, k2, a.callback, a.description, a.enabled)
            /\ (\E kj \in joinsOf(k1) : registered(bindings, kj)) =>
                  /\ \A a \in CallArgs :
                        LET r == bind(bindings, k2, a.callback, a.description, a.enabled)
                        IN  ~r.threw /\ r.bindings = bindings /\ r.warned # <<>>
                  /\ Len(unbind(bindings, k2).bindings) = Len(bindings) - 1
                  /\ unbind(bindings, k2).warned = <<>>
                  /\ enable(bindings, k2).warned = <<>>
                  /\ disable(bindings, k2).warned = <<>>
                  /\ \A a \in CallArgs :
                        rebind(bindings, k2, a.callback, a.description, a.enabled).warned
                            = <<>>

C23_Witness ==
    /\ out.op = "bind"
    /\ out.warned = <<KeyEscape>>
    /\ Len(bindings) = 2
    /\ bindings[1].keys = <<<<"c", "t", "r", "l">>, <<"s">>>>
    /\ bindings[2].keys = <<KeyEscape>>

\* the alternatives of group g that the parser keeps: alias-resolved, and not
\* blank after that
keptAlternatives(keys, g) ==
    LET alts == split(partsOf(keys)[g], BAR)
    IN  SelectSeq([k \in DOMAIN alts |-> aliasOr(alts[k])], LAMBDA alt : trim(alt) # <<>>)

\* the kept alternatives of the groups from part i on, in written order
RECURSIVE keptFrom(_, _)
keptFrom(keys, i) ==
    IF i > Len(partsOf(keys)) THEN <<>>
    ELSE (IF i \in groupsOf(keys) THEN keptAlternatives(keys, i) ELSE <<>>)
         \o keptFrom(keys, i + 1)

\* the last alternation group of a shortcut string
lastGroup(keys) == CHOOSE g \in groupsOf(keys) : \A h \in groupsOf(keys) : h <= g

\* C24, as claimed: with more than one alternation group, the parser returns one
\* key sequence per alternative of the last group only.
C24_LastGroupGoverns ==
    (out.op = "parse" /\ Cardinality(groupsOf(out.keys)) > 1) =>
        LET alts == keptAlternatives(out.keys, lastGroup(out.keys))
        IN  /\ out.parsed.threw <=> alts = <<>>
            /\ ~out.parsed.threw =>
                  out.parsed.value = [k \in DOMAIN alts |-> prefixOf(out.keys) \o <<alts[k]>>]

\* C24, amended: with more than one alternation group, the parser returns one
\* key sequence for every kept alternative of every group, in written order:
\* the parts outside the groups followed by that alternative; it throws exactly
\* when no group has a kept alternative.
C24_EveryGroupExpands ==
    (out.op = "parse" /\ Cardinality(groupsOf(out.keys)) > 1) =>
        LET alts == keptFrom(out.keys, 1)
        IN  /\ out.parsed.threw <=> alts = <<>>
            /\ ~out.parsed.threw =>
                  out.parsed.value = [k \in DOMAIN alts |-> prefixOf(out.keys) \o <<alts[k]>>]

C24_Witness ==
    /\ out.op = "parse"
    /\ out.keys = <<"c", "t", "r", "l", "+", "c", "|", "v", "+", "v", "|", "c">>
    /\ ~out.parsed.threw
    /\ Len(out.parsed.value) = 4

\* C25: when the callback invoked for an event calls bind, unbind, rebind,
\* enable, disable or destroy on its own registry, the dispatch invokes that
\* one callback only (the one it invokes without such calls), ends without an
\* exception, leaves the registry as the callback's call left it, and no two
\* bindings of the registry have the same join.
C25_ReentrantCallback ==
    [][(/\ out'.op = "event"
        /\ out'.invoked # <<>>
        /\ out'.invoked[1].callback \in ReentrantCallbacks)
       => LET e == callbackEffect(out'.invoked[1].callback, bindings, listeners)
          IN  /\ Len(out'.invoked) = 1
              /\ out'.invoked = handleKeydown(bindings, debug, out'.event).invoked
              /\ ~out'.threw
              /\ bindings' = e.bindings
              /\ listeners' = e.listeners
              /\ \A i, j \in DOMAIN bindings' :
                    i # j => keysJoin(bindings'[i].keys) # keysJoin(bindings'[j].keys)]_vars

C25_Witness ==
    /\ out.op = "event"
    /\ out.invoked # <<>>
    /\ out.invoked[1].callback = "cbDestroy"
    /\ ~out.threw
    /\ listeners = {}
    /\ bindings = <<>>

\* C26: an event given to the handler that is neither a keyboard event nor a
\* mouse event invokes no callback, does not call preventDefault, prints
\* nothing even in debug mode, throws nothing and leaves the registry, the
\* debug flag and the listeners as they were.
C26_OtherEventsIgnored ==
    [][(/\ out'.op = "event"
        /\ out'.event.cls \notin {"KeyboardEvent", "MouseEvent"})
       => /\ out'.invoked = <<>>
          /\ ~out'.prevented
          /\ out'.logged = <<>>
          /\ ~out'.threw
          /\ UNCHANGED <<bindings, debug, listeners>>]_vars

C26_Witness ==
    /\ out.op = "event"
    /\ out.event = plainEvent("keydown")
    /\ "keydown" \in listeners
    /\ debug
    /\ \E i \in DOMAIN bindings : bindings[i].enabled
    /\ out.logged = <<>>
    /\ out.invoked = <<>>

C28_DetachedForGood ==
    [][listeners = {} =>
          /\ listeners' = {}
          /\ out'.op = "bind" =>
                \A keys \in Keys, a \in CallArgs :
                    (BindCall(keys, a) /\ ~out'.threw) =>
                        \A k \in DOMAIN parsedKeys(keys).value :
                            LET seq == parsedKeys(keys).value[k]
                            IN  \E i \in DOMAIN bindings' :
                                    /\ bindings'[i].keys = seq
                                    /\ (\A j \in DOMAIN bindings :
                                            keysJoin(bindings[j].keys) # keysJoin(seq))
                                       => /\ i = Len(bindings')
                                          /\ bindings'[i].callback = a.callback
                                          /\ bindings'[i].enabled = a.enabled
          /\ out'.op = "docs" =>
                /\ Len(out'.returned) = Len(bindings)
                /\ \A i \in DOMAIN bindings :
                      /\ out'.returned[i].description = bindings[i].description
                      /\ out'.returned[i].keys =
                             IF out'.readable
                             THEN join(bindings[i].keys, <<" ", "+", " ">>)
                             ELSE bindings[i].keys
          /\ out'.op = "event" =>
                /\ out'.invoked = <<>>
                /\ ~out'.prevented
                /\ out'.logged = <<>>
                /\ UNCHANGED <<bindings, listeners>>]_vars

C28_Witness ==
    /\ out.op = "event"
    /\ listeners = {}
    /\ out.event.cls = "KeyboardEvent"
    /\ \E i \in DOMAIN bindings :
          /\ bindings[i].enabled
          /\ sort(bindings[i].keys) = sort(pressedOf(out.event))
    /\ out.invoked = <<>>
    /\ ~out.prevented

====
